---- MODULE Spec2Model ----
(***************************************************************************)
(* Model of the GitHub Actions task scheduler (main.ts): the Deno KV task  *)
(* store, the oak route handlers that use it, the GitHubAPI client with    *)
(* its status normalisation, and startApp with the Cron jobs it creates.   *)
(*                                                                         *)
(* JavaScript strings are sequences of one-character strings, so that      *)
(* String.prototype.trim and split("/").pop() are computed.  JavaScript    *)
(* objects are records whose DOMAIN is the set of properties present; an   *)
(* absent property reads as undefined.  Every await of a handler is a      *)
(* suspension point: a handler is a sequence of steps, and the steps of    *)
(* the requests in flight interleave.                                      *)
(***************************************************************************)
EXTENDS Integers, Sequences, FiniteSets, TLC

VARIABLES
    kv,        \* Deno KV under prefix ["tasks"]: task id -> stored value
    nextId,    \* the next value crypto.randomUUID() returns (ids are never reused)
    clock,     \* the value the next new Date() returns; every call advances it
    served,    \* requests accepted so far
    req,       \* the request of each connection on the store and run-now routes
    probe,     \* the request on the status and repo-info routes
    phase,     \* startApp: "starting", "serving" once it listens, "exited"
    timers,    \* the Cron jobs startApp created: task id -> the task it captured
    fires      \* per Cron job: dispatches in flight and how the last one ended

vars == <<kv, nextId, clock, served, req, probe, phase, timers, fires>>

(***************************************************************************)
(* Bounds                                                                  *)
(***************************************************************************)
MaxRequests == 2   \* requests accepted in one behaviour
MaxRuns == 1       \* runs in one response of the runs query
MaxInFlight == 3   \* dispatches one Cron job has in flight at a time

Slots == {1, 2}                    \* concurrent connections
\* an id no task is ever stored under: the store starts with at most two
\* tasks and every request creates at most one
GhostId == MaxRequests + 3

(***************************************************************************)
(* Strings                                                                 *)
(***************************************************************************)
RECURSIVE TrimStart(_)
TrimStart(s) ==
    IF s # <<>> /\ Head(s) = " " THEN TrimStart(Tail(s)) ELSE s

RECURSIVE TrimEnd(_)
TrimEnd(s) ==
    IF s # <<>> /\ s[Len(s)] = " " THEN TrimEnd(SubSeq(s, 1, Len(s) - 1)) ELSE s

\* String.prototype.trim
Trim(s) == TrimEnd(TrimStart(s))

\* s.includes("/")
Includes(s, ch) == \E i \in 1 .. Len(s) : s[i] = ch

\* s.split("/").pop(): the part after the last separator
RECURSIVE LastSegment(_)
LastSegment(s) ==
    IF Includes(s, "/") THEN LastSegment(Tail(s)) ELSE s

\* obj.key, with obj.key === undefined when the property is absent
Has(obj, key) == key \in DOMAIN obj

\* { ...a, ...b }
Spread(a, b) ==
    [k \in DOMAIN a \cup DOMAIN b |-> IF k \in DOMAIN b THEN b[k] ELSE a[k]]

\* !obj.key?.trim() for a string property
BlankField(obj, key) == ~Has(obj, key) \/ Trim(obj[key]) = <<>>

(***************************************************************************)
(* Errors and responses                                                    *)
(***************************************************************************)
\* new AppError(message, status); messages are named by what they say
AppError(message, status) == [isApp |-> TRUE, error |-> message, status |-> status]

\* an error that is not an AppError: a TypeError on reading a property of
\* null or undefined, or the rejection of fetch
OtherError(message) == [isApp |-> FALSE, error |-> message, status |-> 0]
TypeError == OtherError("TypeError")

\* the error middleware: an AppError answers with its status and message,
\* anything else with 500
ErrorResponse(err) ==
    IF err.isApp THEN [status |-> err.status, error |-> err.error]
    ELSE [status |-> 500, error |-> "Internal server error"]

\* validateTaskData: the error it throws, or no error
NoError == [isApp |-> FALSE, error |-> "none", status |-> 0]
validateTaskDataUntrimmedCron(task) ==
    IF BlankField(task, "name") THEN AppError("name empty", 400)
    ELSE IF BlankField(task, "repo") THEN AppError("repo empty", 400)
    ELSE IF BlankField(task, "workflow") THEN AppError("workflow empty", 400)
    ELSE IF ~Has(task, "cron") \/ task.cron = <<>> THEN AppError("cron empty", 400)
    ELSE NoError
validateTaskData(task) ==
    IF BlankField(task, "name") THEN AppError("name empty", 400)
    ELSE IF BlankField(task, "repo") THEN AppError("repo empty", 400)
    ELSE IF BlankField(task, "workflow") THEN AppError("workflow empty", 400)
    ELSE IF BlankField(task, "cron") THEN AppError("cron empty", 400)
    ELSE NoError

TaskNotFound == AppError("task not found", 404)
NameExists == AppError("name exists", 400)
MissingId == AppError("missing id", 400)

(***************************************************************************)
(* TaskStore                                                               *)
(***************************************************************************)
\* TaskStore.list, when the scan succeeds: every stored value with its id
list == { Spread([id |-> i], kv[i]) : i \in DOMAIN kv }

\* crypto.randomUUID(): a value never returned before
randomUUIDFromCount == Cardinality(DOMAIN kv) + 1
randomUUID == nextId

\* TaskStore.list: the catch around the scan logs and returns [], so the
\* call never throws
TaskStoreListRethrows(scanOk) ==
    IF scanOk THEN [threw |-> FALSE, tasks |-> list]
    ELSE [threw |-> TRUE, error |-> OtherError("scan failed")]
TaskStoreList(scanOk) ==
    IF scanOk THEN [threw |-> FALSE, tasks |-> list]
    ELSE [threw |-> FALSE, tasks |-> {}]

\* TaskStore.checkNameExists over the tasks list() returned
checkNameExistsNegated(tasks, name, excludeId) ==
    \E t \in tasks : t.name # Trim(name) /\ t.id # excludeId
checkNameExists(tasks, name, excludeId) ==
    \E t \in tasks : t.name = Trim(name) /\ t.id # excludeId

\* the routes handing the whole body to the store, the six fields normalised
TaskDataWholeBody(task) ==
    Spread([k \in DOMAIN task \ {"id"} |-> task[k]],
           [name |-> Trim(task.name),
            repo |-> Trim(task.repo),
            workflow |-> Trim(task.workflow),
            ref |-> IF Has(task, "ref") /\ task.ref # <<>> THEN task.ref ELSE <<"m", "a", "i", "n">>,
            cron |-> Trim(task.cron),
            description |-> IF Has(task, "description") THEN Trim(task.description) ELSE <<>>])

\* the object the POST and PUT routes hand to the store
TaskData(task) ==
    [name |-> Trim(task.name),
     repo |-> Trim(task.repo),
     workflow |-> Trim(task.workflow),
     ref |-> IF Has(task, "ref") /\ task.ref # <<>> THEN task.ref ELSE <<"m", "a", "i", "n">>,
     cron |-> Trim(task.cron),
     description |-> IF Has(task, "description") THEN Trim(task.description) ELSE <<>>]

\* kv.set(["tasks", id], value)
KvSet(id, value) ==
    kv' = [i \in DOMAIN kv \cup {id} |-> IF i = id THEN value ELSE kv[i]]

\* kv.delete(["tasks", id])
KvDeletePrefix(id) ==
    kv' = [i \in {} |-> kv[i]]
KvDelete(id) ==
    kv' = [i \in DOMAIN kv \ {id} |-> kv[i]]

\* TaskStore.delete: the key is removed; the Cron job of the task, if there
\* is one, is left as it is
TaskStoreDeleteStopsJob(id) ==
    /\ KvDelete(id)
    /\ timers' = [i \in DOMAIN timers \ {id} |-> timers[i]]
TaskStoreDelete(id) ==
    /\ KvDelete(id)
    /\ UNCHANGED timers

(***************************************************************************)
(* Request bodies the clients send                                         *)
(***************************************************************************)
With(obj, key, v) == Spread(obj, [k \in {key} |-> v])
Without(obj, key) == [k \in DOMAIN obj \ {key} |-> obj[k]]

Required == {"name", "repo", "workflow", "cron"}
Blanks == {<<>>, <<" ">>}
NameVals == {<<"a">>, <<" ", "a">>, <<"b">>}

\* the pattern "* * * * *"
EveryMinute == <<"*", " ", "*", " ", "*", " ", "*", " ", "*">>

Base == [name |-> <<"a">>, repo |-> <<"r">>, workflow |-> <<"p", "/", "w">>,
         cron |-> EveryMinute]

\* a body that also carries a created_at of the client's own
Stamped == With(With(With(Base, "name", <<"b">>), "ref", <<"d">>), "created_at", 99)

\* every required field present and not blank
ValidBodies ==
    { With(Base, "name", n) : n \in NameVals }
        \cup { With(With(Base, "name", <<"b">>), "workflow", <<"w">>), Stamped }

\* one required field absent, empty or whitespace-only
BlankBodies ==
    { Without(Base, k) : k \in Required }
        \cup { With(Base, k, b) : k \in Required, b \in Blanks }

\* every required field present and not blank, the cron field not a pattern
BadCronBodies == { With(With(Base, "name", <<"b">>), "cron", <<"c">>) }

TaskBodies == ValidBodies \cup BadCronBodies \cup BlankBodies

\* the ids a client can send: those handed out so far, and one never handed out
ClientIds == (1 .. (nextId - 1)) \cup {GhostId}

\* the bodies of PUT: a name kept, a name with padding, a name and ref changed
PutValidBodies ==
    { With(Base, "name", n) : n \in {<<"a">>, <<" ", "a">>} }
        \cup { Stamped }
PutBlankBodies == { With(Base, k, <<" ">>) : k \in Required }

PutBodies ==
    {Base} \cup { With(b, "id", i) : b \in PutValidBodies, i \in ClientIds }
           \cup { With(b, "id", GhostId) : b \in PutBlankBodies }
IdBodies == { [id |-> i] : i \in ClientIds }
NoIdBody == [other |-> TRUE]
ToggleBodies == IdBodies \cup { [id |-> i, enabled |-> e] : i \in ClientIds, e \in BOOLEAN }

(***************************************************************************)
(* The remote API                                                          *)
(***************************************************************************)
ErrorStatuses == {403, 404, 500}
FetchFailed == 0        \* stands for fetch rejecting: no HTTP response at all
WorkflowStates == {"active", "disabled", "disabled_manually"}

\* GitHubAPI.request: what the awaited call yields for an HTTP response
RequestDropsStatus(response) ==
    IF response.status = FetchFailed
    THEN [threw |-> TRUE, error |-> OtherError("fetch failed")]
    ELSE IF response.status \notin 200 .. 299
    THEN [threw |-> TRUE, error |-> AppError("github request failed", 500)]
    ELSE IF response.status = 204
    THEN [threw |-> FALSE, isNull |-> TRUE]
    ELSE [threw |-> FALSE, isNull |-> FALSE, value |-> response.body]
Request(response) ==
    IF response.status = FetchFailed
    THEN [threw |-> TRUE, error |-> OtherError("fetch failed")]
    ELSE IF response.status \notin 200 .. 299
    THEN [threw |-> TRUE, error |-> AppError("github request failed", response.status)]
    ELSE IF response.status = 204
    THEN [threw |-> FALSE, isNull |-> TRUE]
    ELSE [threw |-> FALSE, isNull |-> FALSE, value |-> response.body]

\* responses to GET /repos/{repo}/actions/workflows/{workflow}
LookupResponses ==
    { [status |-> s] : s \in ErrorStatuses \cup {FetchFailed, 204} }
        \cup { [status |-> 200, body |-> [state |-> st]] : st \in WorkflowStates }

\* responses to POST .../dispatches
DispatchResponses == { [status |-> s] : s \in ErrorStatuses \cup {FetchFailed, 204} }

\* responses to POST /repos/{repo}/actions/runs/{run_id}/cancel: 202 with
\* an empty object, 409 for a run that cannot be cancelled
CancelResponses ==
    { [status |-> s] : s \in ErrorStatuses \cup {FetchFailed, 409} }
        \cup { [status |-> 202, body |-> [accepted |-> TRUE]] }

\* GitHubAPI.triggerWorkflow: awaits request() and returns nothing
triggerWorkflowSwallows(response) == [threw |-> FALSE]
triggerWorkflow(response) ==
    LET out == Request(response)
    IN  IF out.threw THEN out ELSE [threw |-> FALSE]

\* GitHubAPI.cancelWorkflow: awaits request() and returns nothing
cancelWorkflow(response) ==
    LET out == Request(response)
    IN  IF out.threw THEN out ELSE [threw |-> FALSE]

\* the workflow both getWorkflowInfo and triggerWorkflow address
workflowPath(workflow) ==
    IF Includes(workflow, "/") THEN LastSegment(workflow) ELSE workflow

(***************************************************************************)
(* Requests in flight                                                      *)
(***************************************************************************)
Idle == [op |-> "idle", pc |-> "idle"]

\* no request is in flight on connection r
Unused(r) == req[r].pc \in {"idle", "done"}

\* a new request is accepted on connection r: the first one not in use
Free(r) ==
    /\ phase = "serving"
    /\ Unused(r)
    /\ \A s \in Slots : s < r => ~Unused(s)
    /\ served < MaxRequests

\* a response already read by its client is forgotten once another is sent
Forget(s) == IF req[s].pc = "done" THEN Idle ELSE req[s]

\* the handler returned or threw: the response is sent
Answer(r, record) ==
    req' = [s \in Slots |-> IF s = r THEN record ELSE Forget(s)]

Respond(r, response) ==
    Answer(r, [op |-> req[r].op, pc |-> "done", task |-> req[r].task, resp |-> response])

\* the response sent after a remote call came back: the call is kept with it
RespondAfter(r, response, endpoint, remote) ==
    Answer(r, [op |-> req[r].op, pc |-> "done", task |-> req[r].task, resp |-> response,
               called |-> [endpoint |-> endpoint, response |-> remote,
                           out |-> Request(remote)]])

Goto(r, pc, locals) ==
    req' = [req EXCEPT ![r] = Spread(req[r], Spread([pc |-> pc], locals))]


\* a value the POST route stored in an earlier run of the process
Stored(name, extra) ==
    Spread(Spread(TaskData(With(Base, "name", name)), [created_at |-> 0]), extra)

\* the persistent store the process starts on
InitStores ==
    { [i \in {} |-> Idle],
      [i \in {1, 2} |-> IF i = 1 THEN Stored(<<"a">>, [enabled |-> FALSE, updated_at |-> 0])
                                  ELSE Stored(<<"b">>, [created_at |-> 0])] }

Init ==
    /\ kv \in InitStores
    /\ nextId = Cardinality(DOMAIN kv) + 1
    /\ clock = 1
    /\ served = 0
    /\ req = [r \in Slots |-> Idle]
    /\ probe = Idle
    /\ phase = "starting"
    /\ timers = <<>>
    /\ fires = <<>>

(***************************************************************************)
(* startApp and the Cron jobs                                              *)
(***************************************************************************)
\* the characters a field of a pattern is written with
CronChars == {"*", ",", "-", "/", "?", "0", "1", "2", "3", "4", "5", "6", "7", "8", "9"}

\* the whitespace-separated fields of a pattern
CronFields(pattern) ==
    Cardinality({ i \in 1 .. Len(pattern) :
                    pattern[i] # " " /\ (i = 1 \/ pattern[i - 1] = " ") })

\* new Cron(pattern, fn) returns; it throws on anything but five or six
\* fields of pattern characters
CronValid(pattern) ==
    /\ CronFields(pattern) \in {5, 6}
    /\ \A i \in 1 .. Len(pattern) : pattern[i] \in CronChars \cup {" "}

\* what the callback of a job closes over: the task as list() returned it
Timer(task) ==
    [name |-> task.name, repo |-> task.repo, workflow |-> task.workflow,
     ref |-> task.ref, cron |-> task.cron]

NoFire == [inflight |-> 0, last |-> "none"]

\* startApp: list() once, one new Cron per task it returned, then listen;
\* a throw on the way ends the process (Deno.exit(1))
Startup ==
    /\ phase = "starting"
    /\ \E scanOk \in BOOLEAN :
          LET out == TaskStoreList(scanOk)
          IN  IF out.threw \/ \E t \in out.tasks : ~CronValid(t.cron)
              THEN /\ phase' = "exited"
                   /\ UNCHANGED <<timers, fires>>
              ELSE /\ timers' = [i \in { t.id : t \in out.tasks } |->
                                    Timer(CHOOSE t \in out.tasks : t.id = i)]
                   /\ fires' = [i \in { t.id : t \in out.tasks } |-> NoFire]
                   /\ phase' = "serving"
    /\ UNCHANGED <<kv, nextId, clock, served, req, probe>>

\* the process is started again on the store it left: the module is loaded
\* anew, nothing of the requests in flight or of the Cron jobs is kept
Restart ==
    /\ phase = "serving"
    /\ phase' = "starting"
    /\ req' = [r \in Slots |-> Idle]
    /\ probe' = Idle
    /\ timers' = <<>>
    /\ fires' = <<>>
    /\ UNCHANGED <<kv, nextId, clock, served>>

(***************************************************************************)
(* POST /api/tasks                                                         *)
(***************************************************************************)
\* the body is read and validated; checkNameExists starts its scan
PostTasks(r) ==
    /\ Free(r)
    /\ \E task \in TaskBodies :
          LET err == validateTaskData(task)
              start == [op |-> "create", pc |-> "checkName", task |-> task]
          IN  IF err # NoError
              THEN Answer(r, Spread(start, [pc |-> "done", resp |-> ErrorResponse(err)]))
              ELSE req' = [req EXCEPT ![r] = start]
    /\ served' = served + 1
    /\ UNCHANGED <<kv, nextId, clock, probe, phase, timers, fires>>

\* list() returns (an empty list when the scan failed); on a free name
\* TaskStore.create draws the id and the timestamp and issues kv.set
PostTasksCheck(r) ==
    /\ req[r].op = "create" /\ req[r].pc = "checkName"
    /\ \E scanOk \in BOOLEAN :
          LET out == TaskStoreList(scanOk)
          IN  IF out.threw
              THEN /\ Respond(r, ErrorResponse(out.error))
                   /\ UNCHANGED <<nextId, clock>>
              ELSE IF checkNameExists(out.tasks, req[r].task.name, 0)
              THEN /\ Respond(r, ErrorResponse(NameExists))
                   /\ UNCHANGED <<nextId, clock>>
              ELSE /\ Goto(r, "set",
                           [id |-> randomUUID,
                            value |-> Spread(TaskData(req[r].task), [created_at |-> clock])])
                   /\ clock' = clock + 1
                   /\ nextId' = nextId + 1
    /\ UNCHANGED <<kv, served, probe, phase, timers, fires>>

\* kv.set commits; the route answers with the id
PostTasksSet(r) ==
    /\ req[r].op = "create" /\ req[r].pc = "set"
    /\ KvSet(req[r].id, req[r].value)
    /\ Respond(r, [status |-> 200, id |-> req[r].id])
    /\ UNCHANGED <<nextId, clock, served, probe, phase, timers, fires>>

(***************************************************************************)
(* PUT /api/tasks                                                          *)
(***************************************************************************)
\* the body is read, the id required, the fields validated
PutTasks(r) ==
    /\ Free(r)
    /\ \E task \in PutBodies :
          LET err == IF ~Has(task, "id") THEN MissingId ELSE validateTaskData(task)
              start == [op |-> "update", pc |-> "checkName", task |-> task]
          IN  IF err # NoError
              THEN Answer(r, Spread(start, [pc |-> "done", resp |-> ErrorResponse(err)]))
              ELSE req' = [req EXCEPT ![r] = start]
    /\ served' = served + 1
    /\ UNCHANGED <<kv, nextId, clock, probe, phase, timers, fires>>

\* list() returns; on a free name TaskStore.update starts with get(id)
PutTasksCheck(r) ==
    /\ req[r].op = "update" /\ req[r].pc = "checkName"
    /\ \E scanOk \in BOOLEAN :
          LET out == TaskStoreList(scanOk)
          IN  IF out.threw
              THEN Respond(r, ErrorResponse(out.error))
              ELSE IF checkNameExists(out.tasks, req[r].task.name, req[r].task.id)
              THEN Respond(r, ErrorResponse(NameExists))
              ELSE Goto(r, "get", [id |-> req[r].task.id, data |-> TaskData(req[r].task)])
    /\ UNCHANGED <<kv, nextId, clock, served, probe, phase, timers, fires>>

\* TaskStore.update after its get(id): 404 when absent, else the merged
\* value is built with a fresh updated_at and kv.set is issued
UpdateGet(r) ==
    /\ req[r].op \in {"update", "toggle"} /\ req[r].pc = "get"
    /\ IF req[r].id \notin DOMAIN kv
       THEN /\ Respond(r, ErrorResponse(TaskNotFound))
            /\ UNCHANGED clock
       ELSE /\ Goto(r, "set",
                    [value |-> Spread(Spread(kv[req[r].id], req[r].data),
                                      [updated_at |-> clock])])
            /\ clock' = clock + 1
    /\ UNCHANGED <<kv, nextId, served, probe, phase, timers, fires>>

\* kv.set of TaskStore.update commits
UpdateSet(r) ==
    /\ req[r].op \in {"update", "toggle"} /\ req[r].pc = "set"
    /\ KvSet(req[r].id, req[r].value)
    /\ Respond(r, [status |-> 200, success |-> TRUE])
    /\ UNCHANGED <<nextId, clock, served, probe, phase, timers, fires>>

(***************************************************************************)
(* DELETE /api/tasks                                                       *)
(***************************************************************************)
DeleteTasks(r) ==
    /\ Free(r)
    /\ \E task \in IdBodies \cup {NoIdBody} :
          LET start == [op |-> "delete", pc |-> "delete", task |-> task]
          IN  IF ~Has(task, "id")
              THEN Answer(r, Spread(start, [pc |-> "done", resp |-> ErrorResponse(MissingId)]))
              ELSE req' = [req EXCEPT ![r] = start]
    /\ served' = served + 1
    /\ UNCHANGED <<kv, nextId, clock, probe, phase, timers, fires>>

\* kv.delete commits
DeleteTasksCommit(r) ==
    /\ req[r].op = "delete" /\ req[r].pc = "delete"
    /\ TaskStoreDelete(req[r].task.id)
    /\ Respond(r, [status |-> 200, success |-> TRUE])
    /\ UNCHANGED <<nextId, clock, served, probe, phase, fires>>

(***************************************************************************)
(* POST /api/tasks/toggle                                                  *)
(***************************************************************************)
PostToggle(r) ==
    /\ Free(r)
    /\ \E task \in ToggleBodies :
          req' = [req EXCEPT ![r] = [op |-> "toggle", pc |-> "read", task |-> task]]
    /\ served' = served + 1
    /\ UNCHANGED <<kv, nextId, clock, probe, phase, timers, fires>>

\* taskStore.get(id) of the route returns: 404, or the task read is spread
\* into the update data with the new enabled flag
PostToggleRead(r) ==
    /\ req[r].op = "toggle" /\ req[r].pc = "read"
    /\ LET id == req[r].task.id
       IN  IF id \notin DOMAIN kv
           THEN Respond(r, ErrorResponse(TaskNotFound))
           ELSE LET task == kv[id]
                    enabled == IF Has(req[r].task, "enabled")
                               THEN req[r].task.enabled
                               ELSE ~(Has(task, "enabled") /\ task.enabled)
                IN  Goto(r, "get", [id |-> id, data |-> Spread(task, [enabled |-> enabled])])
    /\ UNCHANGED <<kv, nextId, clock, served, probe, phase, timers, fires>>

(***************************************************************************)
(* POST /api/tasks/run                                                     *)
(***************************************************************************)
PostRun(r) ==
    /\ Free(r)
    /\ \E task \in IdBodies :
          req' = [req EXCEPT ![r] = [op |-> "run", pc |-> "get", task |-> task]]
    /\ served' = served + 1
    /\ UNCHANGED <<kv, nextId, clock, probe, phase, timers, fires>>

\* taskStore.get(id) returns: 404, or getWorkflowInfo issues the lookup
PostRunGet(r) ==
    /\ req[r].op = "run" /\ req[r].pc = "get"
    /\ IF req[r].task.id \notin DOMAIN kv
       THEN Respond(r, ErrorResponse(TaskNotFound))
       ELSE LET task == kv[req[r].task.id]
            IN  Goto(r, "lookup",
                     [stored |-> task,
                      call |-> [endpoint |-> "workflow",
                                workflow |-> workflowPath(task.workflow)]])
    /\ UNCHANGED <<kv, nextId, clock, served, probe, phase, timers, fires>>

\* line 367: the run-now route refuses every state but active
RunRefusesDisabledOnly(workflowInfo) == workflowInfo.state = "disabled"
RunRefuses(workflowInfo) == workflowInfo.state # "active"

\* the lookup answers: a failure propagates, a state other than active
\* answers "disabled", and only active goes on to triggerWorkflow
PostRunLookup(r) ==
    /\ req[r].op = "run" /\ req[r].pc = "lookup"
    /\ \E response \in LookupResponses :
          LET workflowInfo == Request(response)
          IN  IF workflowInfo.threw
              THEN RespondAfter(r, ErrorResponse(workflowInfo.error), "workflow", response)
              ELSE IF workflowInfo.isNull
              THEN RespondAfter(r, ErrorResponse(TypeError), "workflow", response)
              ELSE IF RunRefuses(workflowInfo.value)
              THEN RespondAfter(r, [status |-> 200, body |-> "disabled"], "workflow", response)
              ELSE Goto(r, "dispatch",
                        [workflowInfo |-> workflowInfo.value,
                         call |-> [endpoint |-> "dispatches",
                                   workflow |-> workflowPath(req[r].stored.workflow),
                                   ref |-> req[r].stored.ref]])
    /\ UNCHANGED <<kv, nextId, clock, served, probe, phase, timers, fires>>

\* the dispatch answers
PostRunDispatch(r) ==
    /\ req[r].op = "run" /\ req[r].pc = "dispatch"
    /\ \E response \in DispatchResponses :
          LET out == triggerWorkflow(response)
          IN  IF out.threw
              THEN RespondAfter(r, ErrorResponse(out.error), "dispatches", response)
              ELSE RespondAfter(r, [status |-> 200, success |-> TRUE], "dispatches", response)
    /\ UNCHANGED <<kv, nextId, clock, served, probe, phase, timers, fires>>

(***************************************************************************)
(* GET /api/tasks                                                          *)
(***************************************************************************)
GetTasks(r) ==
    /\ Free(r)
    /\ req' = [req EXCEPT ![r] = [op |-> "list", pc |-> "list"]]
    /\ served' = served + 1
    /\ UNCHANGED <<kv, nextId, clock, probe, phase, timers, fires>>

\* list() returns and its result is the response body
GetTasksList(r) ==
    /\ req[r].op = "list" /\ req[r].pc = "list"
    /\ \E scanOk \in BOOLEAN :
          LET out == TaskStoreList(scanOk)
              resp == IF out.threw THEN ErrorResponse(out.error)
                      ELSE [status |-> 200, tasks |-> out.tasks]
          IN  Answer(r, [op |-> "list", pc |-> "done", scan |-> scanOk, resp |-> resp])
    /\ UNCHANGED <<kv, nextId, clock, served, probe, phase, timers, fires>>

(***************************************************************************)
(* POST /api/tasks/cancel                                                  *)
(***************************************************************************)
CancelBody == [repo |-> <<"r">>, run_id |-> "run2"]

PostCancel(r) ==
    /\ Free(r)
    /\ req' = [req EXCEPT ![r] = [op |-> "cancel", pc |-> "cancel", task |-> CancelBody]]
    /\ served' = served + 1
    /\ UNCHANGED <<kv, nextId, clock, probe, phase, timers, fires>>

\* the cancel request answers
PostCancelDone(r) ==
    /\ req[r].op = "cancel" /\ req[r].pc = "cancel"
    /\ \E response \in CancelResponses :
          LET out == cancelWorkflow(response)
          IN  IF out.threw
              THEN RespondAfter(r, ErrorResponse(out.error), "cancel", response)
              ELSE RespondAfter(r, [status |-> 200, success |-> TRUE], "cancel", response)
    /\ UNCHANGED <<kv, nextId, clock, served, probe, phase, timers, fires>>

StoreNext ==
    \E r \in Slots :
        \/ GetTasks(r) \/ GetTasksList(r)
        \/ PostCancel(r) \/ PostCancelDone(r)
        \/ PostTasks(r) \/ PostTasksCheck(r) \/ PostTasksSet(r)
        \/ PutTasks(r) \/ PutTasksCheck(r) \/ UpdateGet(r) \/ UpdateSet(r)
        \/ DeleteTasks(r) \/ DeleteTasksCommit(r)
        \/ PostToggle(r) \/ PostToggleRead(r)
        \/ PostRun(r) \/ PostRunGet(r) \/ PostRunLookup(r) \/ PostRunDispatch(r)

(***************************************************************************)
(* POST /api/tasks/status: GitHubAPI.getWorkflowStatus                     *)
(***************************************************************************)
Null == "null"       \* the JSON null of a result field

Conclusions == {"success", "cancelled", "failure", "neutral", "timed_out"}
RunStates == {"queued", "in_progress", "completed"}

\* String.prototype.toUpperCase on the conclusion strings
toUpperCase(s) ==
    CASE s = "success" -> "SUCCESS"
      [] s = "cancelled" -> "CANCELLED"
      [] s = "failure" -> "FAILURE"
      [] s = "neutral" -> "NEUTRAL"
      [] s = "timed_out" -> "TIMED_OUT"

\* the newest run a runs response can start with: any state, with or
\* without a conclusion
LatestRuns ==
    LET run(st) == [id |-> "run2", status |-> st, created_at |-> "t2"]
    IN  { run(st) : st \in RunStates }
            \cup { With(run(st), "conclusion", c) : st \in RunStates, c \in Conclusions }

OlderRun == [id |-> "run1", status |-> "completed", conclusion |-> "success",
             created_at |-> "t1"]

\* workflow_runs of a response: newest first, at most MaxRuns
RunLists ==
    {<<>>} \cup { <<r>> \o [i \in 1 .. k |-> OlderRun] : r \in LatestRuns, k \in 0 .. (MaxRuns - 1) }

\* responses to GET .../workflows/{workflow}/runs?per_page=1; a 200 body
\* can lack the workflow_runs property
RunsResponses ==
    { [status |-> s] : s \in ErrorStatuses \cup {FetchFailed, 204} }
        \cup { [status |-> 200, body |-> [total_count |-> 0]] }
        \cup { [status |-> 200, body |-> [workflow_runs |-> l]] : l \in RunLists }

StatusBodies == { [repo |-> <<"r">>, workflow |-> w] : w \in {<<"w">>, <<"p", "/", "w">>} }

ResultSwapped(status, run_id, last_run, message) ==
    [last_run |-> run_id, status |-> status, run_id |-> last_run, message |-> message]
Result(status, run_id, last_run, message) ==
    [last_run |-> last_run, status |-> status, run_id |-> run_id, message |-> message]

Return(value) == [threw |-> FALSE, value |-> value]
Throw(error) == [threw |-> TRUE, error |-> error]

\* lines 169 and 245-253: the try / catch around the whole method turns
\* whatever was thrown into an API_ERROR result
TryCatchRethrows(outcome) == outcome
TryCatch(outcome) ==
    IF outcome.threw
    THEN Return(Result("API_ERROR", Null, Null, outcome.error.error))
    ELSE outcome

\* lines 171-178: the lookup with its catch handler; a 404 becomes the
\* not_found sentinel, any other failure is thrown again
LookupInfoAnyError(response) ==
    LET out == Request(response)
    IN  IF out.threw /\ out.error.isApp
        THEN [threw |-> FALSE, isNull |-> FALSE, value |-> [state |-> "not_found"]]
        ELSE out
LookupInfo(response) ==
    LET out == Request(response)
    IN  IF out.threw /\ out.error.status = 404
        THEN [threw |-> FALSE, isNull |-> FALSE, value |-> [state |-> "not_found"]]
        ELSE out

\* lines 215-244, before the catch: the result for the newest run; the
\* default case calls toUpperCase on the conclusion, which throws when
\* there is none
RunResultByConclusion(latestRun) ==
    IF Has(latestRun, "conclusion")
    THEN Return(Result(toUpperCase(latestRun.conclusion), latestRun.id,
                       latestRun.created_at, latestRun.conclusion))
    ELSE Return(Result("RUNNING", latestRun.id, latestRun.created_at, "running"))
RunResult(latestRun) ==
    IF latestRun.status = "completed"
    THEN IF ~Has(latestRun, "conclusion")
         THEN Throw(TypeError)
         ELSE LET c == latestRun.conclusion
              IN  CASE c = "success" ->
                         Return(Result("SUCCESS", latestRun.id, latestRun.created_at, "success"))
                    [] c = "cancelled" ->
                         Return(Result("CANCELLED", latestRun.id, latestRun.created_at, "cancelled"))
                    [] c = "failure" ->
                         Return(Result("FAILURE", latestRun.id, latestRun.created_at, "failure"))
                    [] OTHER ->
                         Return(Result(toUpperCase(c), latestRun.id, latestRun.created_at, c))
    ELSE Return(Result("RUNNING", latestRun.id, latestRun.created_at, "running"))

\* lines 201-244, before the catch: once the runs query answered
RunsResult(response) ==
    LET data == Request(response)
    IN  IF data.threw THEN Throw(data.error)
        ELSE IF data.isNull THEN Throw(TypeError)
        ELSE IF ~Has(data.value, "workflow_runs") \/ Len(data.value.workflow_runs) = 0
        THEN Return(Result("NEVER_RUN", Null, Null, "never run"))
        ELSE RunResult(data.value.workflow_runs[1])

\* lines 171-198, before the catch: once the lookup answered; Continue
\* stands for going on to the runs query
Continue == [threw |-> FALSE, continue |-> TRUE]
LookupResult(response) ==
    LET workflowInfo == LookupInfo(response)
    IN  IF workflowInfo.threw THEN Throw(workflowInfo.error)
        ELSE IF workflowInfo.isNull THEN Throw(TypeError)
        ELSE IF workflowInfo.value.state = "not_found"
        THEN Return(Result("NOT_FOUND", Null, Null, "not found"))
        ELSE IF workflowInfo.value.state = "disabled"
        THEN Return(Result("DISABLED", Null, Null, "disabled"))
        ELSE Continue

\* lines 378-382: getWorkflowStatus settled; the route answers with the
\* result, the error middleware with what was thrown
ProbeDone(locals, outcome) ==
    probe' = Spread(Spread(probe, locals),
                    [pc |-> "done",
                     resp |-> IF outcome.threw THEN ErrorResponse(outcome.error)
                              ELSE [status |-> 200, body |-> outcome.value]])

\* the body is read and the lookup issued, on the identifier as sent
PostStatus ==
    /\ phase = "serving"
    /\ probe.pc \in {"idle", "done"}
    /\ \E task \in StatusBodies :
          probe' = [op |-> "status", pc |-> "lookup", task |-> task,
                    call |-> [endpoint |-> "workflow", workflow |-> task.workflow]]
    /\ UNCHANGED <<kv, nextId, clock, served, req, phase, timers, fires>>

\* the lookup answers
StatusLookup ==
    /\ probe.pc = "lookup"
    /\ \E response \in LookupResponses :
          LET outcome == LookupResult(response)
              locals == [lookup |-> response]
          IN  IF outcome = Continue
              THEN probe' = Spread(Spread(probe, locals),
                              [pc |-> "runs",
                               call |-> [endpoint |-> "runs",
                                         workflow |-> probe.task.workflow]])
              ELSE ProbeDone(locals, TryCatch(outcome))
    /\ UNCHANGED <<kv, nextId, clock, served, req, phase, timers, fires>>

\* the runs query answers
StatusRuns ==
    /\ probe.pc = "runs"
    /\ \E response \in RunsResponses :
          ProbeDone([runs |-> response], TryCatch(RunsResult(response)))
    /\ UNCHANGED <<kv, nextId, clock, served, req, phase, timers, fires>>

StatusNext == Startup \/ PostStatus \/ StatusLookup \/ StatusRuns

(***************************************************************************)
(* GET /api/tasks/repo-info: GitHubAPI.getRepoInfo                         *)
(***************************************************************************)
\* a JSON array and a JSON object that is not one
Array(items) == [isArray |-> TRUE, items |-> items]
Object(fields) == Spread([isArray |-> FALSE], fields)

BranchList == Array(<<[name |-> "main", protected |-> TRUE], [name |-> "dev", protected |-> FALSE]>>)
WorkflowList == Array(<<[id |-> 7, name |-> "CI", path |-> ".github/workflows/w", state |-> "active"]>>)

\* responses to GET /repos/{repo}/branches
BranchResponses ==
    { [status |-> s] : s \in ErrorStatuses \cup {FetchFailed, 204} }
        \cup { [status |-> 200, body |-> b] : b \in {BranchList, Object([message |-> "moved"])} }

\* responses to GET /repos/{repo}/actions/workflows
WorkflowsResponses ==
    { [status |-> s] : s \in ErrorStatuses \cup {FetchFailed, 204} }
        \cup { [status |-> 200, body |-> b] :
                 b \in { Object([total_count |-> 1, workflows |-> WorkflowList]),
                         Object([total_count |-> 0]),
                         Object([workflows |-> Object([total_count |-> 1])]) } }

\* branches.map((b) => b.name); calling map on anything but an array is a
\* TypeError
BranchNames(value) ==
    IF value.isArray
    THEN Return([i \in 1 .. Len(value.items) |-> value.items[i].name])
    ELSE Throw(TypeError)

\* workflows.workflows.map((w) => ({ name: w.name, path: w.path }))
WorkflowEntries(value) ==
    IF value.isArray
    THEN Return([i \in 1 .. Len(value.items) |->
                    [name |-> value.items[i].name, path |-> value.items[i].path]])
    ELSE Throw(TypeError)

\* lines 155-165: once both requests of Promise.all returned
RepoInfoResult(branches, workflows) ==
    IF branches.isNull \/ workflows.isNull \/ ~Has(workflows.value, "workflows")
    THEN Throw(AppError("no repo info", 400))
    ELSE LET names == BranchNames(branches.value)
             entries == WorkflowEntries(workflows.value.workflows)
         IN  IF names.threw THEN names
             ELSE IF entries.threw THEN entries
             ELSE Return([branches |-> names.value, workflows |-> entries.value])

RepoQueries == { [repo |-> <<"r">>], [other |-> TRUE] }

\* the query is read; with a repo, both requests are issued at once
GetRepoInfo ==
    /\ phase = "serving"
    /\ probe.pc \in {"idle", "done"}
    /\ \E query \in RepoQueries :
          LET start == [op |-> "repoInfo", pc |-> "all", task |-> query]
          IN  IF ~Has(query, "repo")
              THEN probe' = Spread(start, [pc |-> "done",
                                           resp |-> ErrorResponse(AppError("missing repo", 400))])
              ELSE probe' = start
    /\ UNCHANGED <<kv, nextId, clock, served, req, phase, timers, fires>>

\* one of the two requests answers: a rejection rejects Promise.all at
\* once, the second fulfilment lets the method go on
RepoInfoSettles(key, response) ==
    LET out == Request(response)
        seen == Spread(probe, [k \in {key} |-> response])
    IN  IF out.threw
        THEN probe' = Spread(seen, [pc |-> "done", resp |-> ErrorResponse(out.error)])
        ELSE IF {"branches", "workflows"} \subseteq DOMAIN seen
        THEN LET outcome == RepoInfoResult(Request(seen.branches), Request(seen.workflows))
             IN  probe' = Spread(seen,
                                 [pc |-> "done",
                                  resp |-> IF outcome.threw THEN ErrorResponse(outcome.error)
                                           ELSE [status |-> 200, body |-> outcome.value]])
        ELSE probe' = seen

RepoInfoBranches ==
    /\ probe.op = "repoInfo" /\ probe.pc = "all" /\ ~Has(probe, "branches")
    /\ \E response \in BranchResponses : RepoInfoSettles("branches", response)
    /\ UNCHANGED <<kv, nextId, clock, served, req, phase, timers, fires>>

RepoInfoWorkflows ==
    /\ probe.op = "repoInfo" /\ probe.pc = "all" /\ ~Has(probe, "workflows")
    /\ \E response \in WorkflowsResponses : RepoInfoSettles("workflows", response)
    /\ UNCHANGED <<kv, nextId, clock, served, req, phase, timers, fires>>

RepoNext == Startup \/ GetRepoInfo \/ RepoInfoBranches \/ RepoInfoWorkflows

(***************************************************************************)
(* The callback of a Cron job                                              *)
(***************************************************************************)
\* the ids a job can be registered under
TimerIds == 1 .. (MaxRequests + 2)

\* the try/catch of the callback: a failed dispatch is logged, not thrown
FireCatchRethrows(out) ==
    IF out.threw THEN out ELSE [threw |-> FALSE, last |-> "ok"]
FireCatch(out) ==
    [threw |-> FALSE, last |-> IF out.threw THEN "failed" ELSE "ok"]

\* the job of task i is due: its callback calls triggerWorkflow with the
\* repo, workflow and ref captured at startup
CronFireProtected(i) ==
    /\ phase = "serving"
    /\ i \in DOMAIN timers
    /\ fires[i].inflight = 0
    /\ fires' = [fires EXCEPT ![i].inflight = @ + 1]
    /\ UNCHANGED <<kv, nextId, clock, served, req, probe, phase, timers>>
CronFire(i) ==
    /\ phase = "serving"
    /\ i \in DOMAIN timers
    /\ fires[i].inflight < MaxInFlight
    /\ fires' = [fires EXCEPT ![i].inflight = @ + 1]
    /\ UNCHANGED <<kv, nextId, clock, served, req, probe, phase, timers>>

\* a dispatch of the job answers; a rejection leaving the callback would
\* be unhandled and end the process
CronFireDone(i) ==
    /\ phase = "serving"
    /\ i \in DOMAIN timers
    /\ fires[i].inflight > 0
    /\ \E response \in DispatchResponses :
          LET caught == FireCatch(triggerWorkflow(response))
          IN  IF caught.threw
              THEN /\ phase' = "exited"
                   /\ UNCHANGED fires
              ELSE /\ fires' = [fires EXCEPT ![i] = [inflight |-> @.inflight - 1,
                                                     last |-> caught.last]]
                   /\ UNCHANGED phase
    /\ UNCHANGED <<kv, nextId, clock, served, req, probe, timers>>

CronNext == Startup \/ \E i \in TimerIds : CronFire(i) \/ CronFireDone(i)

\* the run-now route next to the Cron jobs
SchedNext ==
    \/ Startup
    \/ \E r \in Slots : PostRun(r) \/ PostRunGet(r) \/ PostRunLookup(r) \/ PostRunDispatch(r)
    \/ \E i \in TimerIds : CronFire(i) \/ CronFireDone(i)

\* the store, run-now, list and cancel routes
Next == Startup \/ StoreNext

Spec == Init /\ [][Next]_vars

\* the status probe, which shares no state with the other routes
SpecStatus == Init /\ [][StatusNext]_vars

\* the Cron jobs alone
SpecCron == Init /\ [][CronNext]_vars

\* manual runs and scheduled fires together
SpecSched == Init /\ [][SchedNext]_vars

\* the repository query alone
SpecRepo == Init /\ [][RepoNext]_vars

\* createTask and the process starting again on what it stored
BootNext ==
    \/ Startup
    \/ Restart
    \/ \E r \in Slots : PostTasks(r) \/ PostTasksCheck(r) \/ PostTasksSet(r)

SpecBoot == Init /\ [][BootNext]_vars

(***************************************************************************)
(* What the properties below speak about                                   *)
(***************************************************************************)
\* a string that is empty or consists of whitespace only
WhitespaceOnly(str) == \A i \in 1 .. Len(str) : str[i] = " "

\* a required field of the body is absent, empty or whitespace-only
SomeFieldBlank(task) ==
    \E k \in Required : ~Has(task, k) \/ WhitespaceOnly(task[k])

ValidationErrors == {"name empty", "repo empty", "workflow empty", "cron empty"}

\* the status probe has answered
ProbeAnswered == probe.pc = "done"

\* getWorkflowStatus returned normally, with an object that has a status
ProbeReturned ==
    /\ probe.resp.status = 200
    /\ Has(probe.resp, "body")
    /\ Has(probe.resp.body, "status")

\* the lookup succeeded and reported this set of states
LookupReported(states) ==
    /\ probe.lookup.status = 200
    /\ probe.lookup.body.state \in states

RunsQueried == Has(probe, "runs")

\* the runs query succeeded with a list of runs
RunsListed ==
    /\ RunsQueried
    /\ probe.runs.status = 200
    /\ Has(probe.runs.body, "workflow_runs")

LatestRunExists == RunsListed /\ Len(probe.runs.body.workflow_runs) > 0
LatestRun == probe.runs.body.workflow_runs[1]

(***************************************************************************)
(* Properties                                                              *)
(***************************************************************************)
\* C1: in every reachable store state no two stored tasks have the same
\* trimmed name.
C1_UniqueNames ==
    \A i, j \in DOMAIN kv : i # j => Trim(kv[i].name) # Trim(kv[j].name)

\* C2: getWorkflowStatus never raises: whatever the remote answers, the
\* probe completes normally and returns a result object with a status field.
C2_NeverRaises == ProbeAnswered => ProbeReturned

\* C2 witness: the newest run is completed without a conclusion, where the
\* method body throws, and the probe has answered.
C2_Witness ==
    /\ ProbeAnswered
    /\ LatestRunExists
    /\ LatestRun.status = "completed" /\ ~Has(LatestRun, "conclusion")
    /\ ProbeReturned

\* C3: the status is NOT_FOUND if and only if the lookup failed with HTTP
\* 404; a lookup failing with any other status yields API_ERROR.
C3_NotFoundIff404 ==
    ProbeAnswered =>
        /\ ProbeReturned
        /\ (probe.resp.body.status = "NOT_FOUND") <=> (probe.lookup.status = 404)
        /\ probe.lookup.status \in (ErrorStatuses \ {404}) =>
               probe.resp.body.status = "API_ERROR"

\* C3 witness: both a 404 answered NOT_FOUND and a 403 answered API_ERROR
\* occur; the witness is the 404 case.
C3_Witness ==
    /\ ProbeAnswered
    /\ probe.lookup.status = 404
    /\ probe.resp.body.status = "NOT_FOUND"

\* C4: the status is DISABLED if and only if the lookup succeeded and
\* reported the workflow as not active, and then no runs query is issued.
C4_DisabledIffNotActive ==
    ProbeAnswered =>
        /\ ProbeReturned
        /\ (probe.resp.body.status = "DISABLED")
               <=> LookupReported(WorkflowStates \ {"active"})
        /\ probe.resp.body.status = "DISABLED" => ~RunsQueried

\* C5: the status is NEVER_RUN if and only if the lookup succeeded, the
\* workflow is enabled, and the runs query succeeded with an empty run list.
C5_NeverRunIff ==
    ProbeAnswered =>
        /\ ProbeReturned
        /\ (probe.resp.body.status = "NEVER_RUN")
               <=> /\ LookupReported({"active"})
                   /\ RunsListed
                   /\ probe.runs.body.workflow_runs = <<>>

\* C6: for a completed newest run the status is SUCCESS, CANCELLED or
\* FAILURE for those conclusions and the conclusion in upper case for any
\* other; a run-derived status results for every conclusion the remote can
\* report, an absent one included.
C6_ConclusionMapped ==
    (ProbeAnswered /\ LatestRunExists /\ LatestRun.status = "completed") =>
        /\ ProbeReturned
        /\ probe.resp.body.status # "API_ERROR"
        /\ Has(LatestRun, "conclusion") =>
               probe.resp.body.status =
                   [success |-> "SUCCESS", cancelled |-> "CANCELLED",
                    failure |-> "FAILURE", neutral |-> "NEUTRAL",
                    timed_out |-> "TIMED_OUT"][LatestRun.conclusion]

\* C7: when the newest run exists and its state is not completed, the
\* status is RUNNING whatever its conclusion field holds.
C7_NotCompletedIsRunning ==
    (ProbeAnswered /\ LatestRunExists /\ LatestRun.status # "completed") =>
        /\ ProbeReturned
        /\ probe.resp.body.status = "RUNNING"

\* C7 witness: a run in progress that carries a conclusion was answered.
C7_Witness ==
    /\ ProbeAnswered
    /\ LatestRunExists
    /\ LatestRun.status = "in_progress"
    /\ Has(LatestRun, "conclusion") /\ LatestRun.conclusion = "failure"
    /\ probe.resp.body.status = "RUNNING"

\* C8: the run-now route has a dispatch in flight only after the lookup it
\* made returned the state active: a request reaches the dispatch from its
\* lookup only, and with an active workflow.
C8_DispatchOnlyWhenActive ==
    [][\A r \in Slots :
          (req'[r].pc = "dispatch" /\ req[r] # req'[r]) =>
              /\ req[r].op = "run" /\ req[r].pc = "lookup"
              /\ req'[r].workflowInfo.state = "active"
              /\ req'[r].call.endpoint = "dispatches"]_vars

\* C8 witness: a run-now request has its dispatch in flight.
C8_Witness ==
    \E r \in Slots : req[r].op = "run" /\ req[r].pc = "dispatch"

\* C9: createTask with an empty or whitespace-only name, repo, workflow or
\* cron fails with a validation error at once, and the step that receives
\* it leaves the stored tasks unchanged.
C9_BlankCreateRejected ==
    [][\A r \in Slots :
          (req'[r].op = "create" /\ SomeFieldBlank(req'[r].task)) =>
              /\ req'[r].pc = "done"
              /\ req'[r].resp.status = 400
              /\ req'[r].resp.error \in ValidationErrors
              /\ req'[r] # req[r] => kv' = kv]_vars

\* C9 witness: a create with a whitespace-only cron was rejected while
\* tasks are stored.
C9_Witness ==
    \E r \in Slots :
        /\ req[r].op = "create" /\ req[r].pc = "done"
        /\ Has(req[r].task, "cron") /\ req[r].task.cron = <<" ">>
        /\ req[r].resp.status = 400
        /\ DOMAIN kv # {}

\* C10: updateTask with an id that is not in the store fails with NotFound
\* for every otherwise valid payload, one whose name equals another task's
\* name included.
C10_UpdateAbsentIdNotFound ==
    \A r \in Slots :
        (/\ req[r].op = "update" /\ req[r].pc = "done"
         /\ Has(req[r].task, "id") /\ req[r].task.id = GhostId
         /\ ~SomeFieldBlank(req[r].task)) =>
            req[r].resp.status = 404

(***************************************************************************)
(* The store, the scheduler and the remote client                          *)
(***************************************************************************)
Main == <<"m", "a", "i", "n">>

\* the create of connection r commits in this step
CreateCommits(r) ==
    req[r].op = "create" /\ req[r].pc = "set" /\ req'[r].pc = "done"

\* the enabled flag as the task model reads it: true unless stored false
Enabled(task) == ~Has(task, "enabled") \/ task.enabled

StoredNames == { kv[i].name : i \in DOMAIN kv }

\* C11: after a createTask that succeeds on a payload without enabled and
\* without ref, list() holds a record under the returned id whose enabled
\* is true and whose ref is "main".
C11_CreateDefaults ==
    [][\A r \in Slots :
          (CreateCommits(r) /\ ~Has(req[r].task, "enabled") /\ ~Has(req[r].task, "ref")) =>
              \E t \in list' :
                  /\ t.id = req'[r].resp.id
                  /\ Has(t, "enabled") /\ t.enabled = TRUE
                  /\ t.ref = Main]_vars

\* C12: createTask with a name whose trimmed value a stored task already
\* has fails with the conflict error and persists nothing, and the store's
\* create writes no value under a name that is already stored.
C12_DuplicateCreateRejected ==
    [][\A r \in Slots :
          /\ (/\ req[r].op = "create" /\ req[r].pc = "checkName" /\ req'[r] # req[r]
              /\ Trim(req[r].task.name) \in StoredNames) =>
                 /\ req'[r].pc = "done"
                 /\ req'[r].resp = ErrorResponse(NameExists)
                 /\ kv' = kv
          /\ CreateCommits(r) => req[r].value.name \notin StoredNames]_vars

\* C13: deleteTask succeeds whether or not the id is stored; it leaves a
\* store without the id unchanged, and after it the id is absent and every
\* other task is as before, so a second delete changes nothing.
C13_DeleteIdempotent ==
    [][\A r \in Slots :
          (req[r].op = "delete" /\ req[r].pc = "delete" /\ req'[r].pc = "done") =>
              LET id == req[r].task.id
              IN  /\ req'[r].resp.status = 200
                  /\ id \notin DOMAIN kv => kv' = kv
                  /\ DOMAIN kv' = DOMAIN kv \ {id}
                  /\ \A i \in DOMAIN kv' : kv'[i] = kv[i]]_vars

\* C13 witness: a delete of an id that was never stored succeeded on a
\* store that holds tasks.
C13_Witness ==
    \E r \in Slots :
        /\ req[r].op = "delete" /\ req[r].pc = "done"
        /\ Has(req[r].task, "id") /\ req[r].task.id = GhostId
        /\ req[r].resp.status = 200
        /\ DOMAIN kv # {}

\* C14: the step in which startup completes registers a timer for exactly
\* the stored tasks whose enabled flag is true, and none for a task whose
\* flag is false.
C14_StartupTimersForEnabled ==
    [][(phase = "starting" /\ phase' = "serving") =>
          DOMAIN timers' = { i \in DOMAIN kv : Enabled(kv[i]) }]_vars

\* C15: in every state of the serving process the timers are those of the
\* stored enabled tasks, each with the cron expression the task has now.
C15_TimersMatchStore ==
    phase = "serving" =>
        /\ DOMAIN timers = { i \in DOMAIN kv : Enabled(kv[i]) }
        /\ \A i \in DOMAIN timers : timers[i].cron = kv[i].cron

\* C16: a fire whose triggerWorkflow fails is logged and nothing more: the
\* process keeps serving, every timer stays registered, and the job whose
\* last dispatch failed can fire again, which issues a dispatch.
C16_FailedFireKeepsTimer ==
    [][/\ phase = "serving" => (phase' = "serving" /\ timers' = timers)
       /\ \A i \in TimerIds :
             (/\ phase = "serving" /\ i \in DOMAIN fires
              /\ fires[i].last = "failed" /\ fires[i].inflight < MaxInFlight) =>
                 ENABLED CronFire(i)
       /\ \A i \in TimerIds :
             (i \in DOMAIN fires /\ fires[i].last = "failed" /\ fires'[i] # fires[i]) =>
                 \/ fires'[i].inflight = fires[i].inflight + 1
                 \/ fires'[i].inflight = fires[i].inflight - 1]_vars

\* C16 witness: a job whose last dispatch failed has a dispatch in flight.
C16_Witness ==
    /\ phase = "serving"
    /\ \E i \in DOMAIN fires :
          /\ fires[i].last = "failed"
          /\ fires[i].inflight > 0

\* C17: no createTask whose cron is not a valid pattern succeeds: it is
\* rejected.
C17_InvalidCronRejected ==
    \A r \in Slots :
        (/\ req[r].op = "create" /\ req[r].pc = "done"
         /\ Has(req[r].task, "cron") /\ ~CronValid(Trim(req[r].task.cron))) =>
            req[r].resp.status = 400

\* the remote answered a call with a status outside 2xx
RemoteFailed(response) ==
    response.status # FetchFailed /\ response.status \notin 200 .. 299

\* C18: a dispatch or a cancel the remote answers with a status outside
\* 2xx fails with an error carrying that status, and one that never gets a
\* response fails too: neither reports success.
C18_RemoteFailurePropagates ==
    \A r \in Slots :
        (/\ req[r].pc = "done" /\ Has(req[r], "called")
         /\ req[r].called.endpoint \in {"dispatches", "cancel"}) =>
            LET response == req[r].called.response
            IN  /\ RemoteFailed(response) =>
                      /\ req[r].resp.status = response.status
                      /\ ~Has(req[r].resp, "success")
                /\ response.status = FetchFailed =>
                      /\ req[r].resp.status = 500
                      /\ ~Has(req[r].resp, "success")

\* C18 witness: the dispatch of a run-now request was answered with 403.
C18_Witness ==
    \E r \in Slots :
        /\ req[r].pc = "done" /\ Has(req[r], "called")
        /\ req[r].called.endpoint = "dispatches"
        /\ req[r].called.response.status = 403

\* C19: request() fails with an error carrying the status of a response
\* outside 2xx, returns null for 204 and the parsed body for every other
\* 2xx response.
C19_RequestByStatus ==
    \A r \in Slots :
        (req[r].pc = "done" /\ Has(req[r], "called")) =>
            LET response == req[r].called.response
                out == req[r].called.out
            IN  /\ RemoteFailed(response) =>
                      out.threw /\ out.error.isApp /\ out.error.status = response.status
                /\ response.status = 204 => ~out.threw /\ out.isNull
                /\ response.status \in (200 .. 299) \ {204} =>
                      ~out.threw /\ ~out.isNull /\ out.value = response.body

\* C19 witness: a cancel was answered with 202 and a body.
C19_Witness ==
    \E r \in Slots :
        /\ req[r].pc = "done" /\ Has(req[r], "called")
        /\ req[r].called.response.status = 202
        /\ req[r].called.out.value = [accepted |-> TRUE]

\* C20: list() returns every stored task, and nothing else, when the scan
\* succeeds, and the empty list, without raising, when the scan fails.
C20_ListBestEffort ==
    [][\A r \in Slots :
          (req[r].op = "list" /\ req[r].pc = "list" /\ req'[r].pc = "done") =>
              /\ req'[r].resp.status = 200
              /\ IF req'[r].scan
                 THEN /\ \A i \in DOMAIN kv : \E t \in req'[r].resp.tasks :
                            /\ t.id = i
                            /\ DOMAIN t = DOMAIN kv[i] \cup {"id"}
                            /\ \A k \in DOMAIN kv[i] : t[k] = kv[i][k]
                      /\ \A t \in req'[r].resp.tasks : t.id \in DOMAIN kv
                 ELSE req'[r].resp.tasks = {}]_vars

\* C20 witness: a listing whose scan failed answered with the empty list
\* while tasks are stored.
C20_Witness ==
    \E r \in Slots :
        /\ req[r].op = "list" /\ req[r].pc = "done"
        /\ ~req[r].scan
        /\ req[r].resp.status = 200 /\ req[r].resp.tasks = {}
        /\ DOMAIN kv # {}

(***************************************************************************)
(* Updates, the remote addresses, races and ids                            *)
(***************************************************************************)
\* the update of connection r commits in this step
UpdateCommits(r) ==
    req[r].op = "update" /\ req[r].pc = "set" /\ req'[r].pc = "done"

\* C21: when an updateTask commits on a stored task, the stored record has
\* the (trimmed) value of every field the caller supplied, every field the
\* caller did not supply, ref, description, enabled and created_at among
\* them, is as it was before, and updated_at is new.
C21_UpdateFrame ==
    [][\A r \in Slots :
          (UpdateCommits(r) /\ req[r].task.id \in DOMAIN kv) =>
              LET body == req[r].task
                  old == kv[body.id]
                  new == kv'[body.id]
              IN  /\ req'[r].resp.status = 200
                  /\ \A k \in Required : new[k] = Trim(body[k])
                  /\ Has(body, "ref") => new.ref = body.ref
                  /\ \A k \in DOMAIN old \ (DOMAIN body \cup {"updated_at"}) :
                        Has(new, k) /\ new[k] = old[k]
                  /\ Has(new, "updated_at")
                  /\ Has(old, "updated_at") => new.updated_at # old.updated_at]_vars

\* a stored task other than id has the trimmed name
OtherHasName(id, name) ==
    \E i \in DOMAIN kv : i # id /\ kv[i].name = Trim(name)

\* the request of connection r was rejected as a name conflict in this step
ConflictAnswered(r) ==
    req'[r].pc = "done" /\ req'[r].resp = ErrorResponse(NameExists)

\* C22: when the name check of an updateTask returns, a payload that keeps
\* the stored task's own name (no other task having it) is not rejected as
\* a conflict, and a payload whose trimmed name is that of a different
\* stored task is rejected as a conflict with the store unchanged.
C22_UpdateNameConflict ==
    [][\A r \in Slots :
          (req[r].op = "update" /\ req[r].pc = "checkName" /\ req'[r] # req[r]) =>
              LET body == req[r].task
              IN  /\ (/\ body.id \in DOMAIN kv
                      /\ kv[body.id].name = Trim(body.name)
                      /\ ~OtherHasName(body.id, body.name)) => ~ConflictAnswered(r)
                  /\ OtherHasName(body.id, body.name) =>
                        (ConflictAnswered(r) /\ kv' = kv)]_vars

\* C23: every lookup and runs query getWorkflowStatus has in flight
\* addresses the workflow named by the final path segment of the
\* identifier it was given, as getWorkflowInfo and triggerWorkflow do.
C23_SameWorkflowAddressed ==
    (probe.op = "status" /\ probe.pc \in {"lookup", "runs"}) =>
        probe.call.workflow = LastSegment(probe.task.workflow)

\* the responses the repository query has received so far
RepoSeen == { k \in {"branches", "workflows"} : Has(probe, k) }

\* the two bodies have the expected shape: an array of branches and an
\* object whose workflows property is an array
RepoShapeOk ==
    /\ probe.branches.status = 200 /\ probe.branches.body.isArray
    /\ probe.workflows.status = 200
    /\ Has(probe.workflows.body, "workflows")
    /\ probe.workflows.body.workflows.isArray

\* C24: getRepoInfo fails with the remote error when a request fails,
\* with a bad-request error when both answered and a response lacks the
\* expected shape, and otherwise returns the name of every branch and the
\* (name, path) pair of every workflow listed.
C24_RepoInfo ==
    (probe.op = "repoInfo" /\ probe.pc = "done" /\ Has(probe.task, "repo")) =>
        IF \E k \in RepoSeen : Request(probe[k]).threw
        THEN \E k \in RepoSeen :
                /\ Request(probe[k]).threw
                /\ probe.resp.status = IF probe[k].status = FetchFailed THEN 500
                                       ELSE probe[k].status
        ELSE IF ~RepoShapeOk
        THEN probe.resp.status = 400
        ELSE /\ probe.resp.status = 200
             /\ probe.resp.body.branches = <<"main", "dev">>
             /\ probe.resp.body.workflows = <<[name |-> "CI", path |-> ".github/workflows/w"]>>

\* C25: the name check of a create looks at the persisted tasks only, so
\* a create whose trimmed name is not stored passes it whatever other
\* create is in flight, a conflict is answered only for a stored name, and
\* a create that passed persists its record and answers with the id: two
\* creates of one name that both passed both persist.
C25_CreateRace ==
    [][\A r \in Slots :
          /\ (req[r].op = "create" /\ req[r].pc = "checkName" /\ req'[r] # req[r]) =>
                /\ Trim(req[r].task.name) \notin StoredNames => req'[r].pc = "set"
                /\ ConflictAnswered(r) => Trim(req[r].task.name) \in StoredNames
          /\ CreateCommits(r) =>
                /\ req[r].id \in DOMAIN kv' /\ kv'[req[r].id] = req[r].value
                /\ req'[r].resp.status = 200]_vars

\* C25 witness: two creates of the same trimmed name have both passed the
\* name check and neither has persisted yet.
C25_Witness ==
    /\ \A r \in Slots : req[r].op = "create" /\ req[r].pc = "set"
    /\ req[1].value.name = req[2].value.name
    /\ req[1].id # req[2].id
    /\ req[1].value.name \notin StoredNames

\* C26: a Cron job has a dispatch in flight only after its callback looked
\* the workflow up and found it active, as the run-now route does.
C26_FireChecksEnablement ==
    \A i \in DOMAIN fires :
        fires[i].inflight > 0 =>
            Has(fires[i], "workflowInfo") /\ fires[i].workflowInfo.state = "active"

\* C27: once startup has completed no step of a create, update, delete or
\* toggle adds, removes or changes a timer; a stored task without a timer
\* cannot fire, and the timer of a task no longer stored still can.
C27_TimersFixedAtStartup ==
    [][phase = "serving" =>
          /\ timers' = timers
          /\ \A i \in DOMAIN kv \ DOMAIN timers : ~ENABLED CronFire(i)
          /\ \A i \in DOMAIN timers \ DOMAIN kv :
                fires[i].inflight < MaxInFlight => ENABLED CronFire(i)]_vars

\* C27 witness: a task deleted after startup still has its timer, with the
\* values captured at startup, and a task created after startup has none.
C27_Witness ==
    /\ phase = "serving"
    /\ \E i \in DOMAIN timers : i \notin DOMAIN kv /\ timers[i].cron = EveryMinute
    /\ \E j \in DOMAIN kv : j \notin DOMAIN timers

\* the lookup of the run-now request of connection r returns active
RunGoesOn(r) == PostRunLookup(r) /\ req'[r].pc = "dispatch"

\* C28: no dispatch waits for another: a registered job can fire whatever
\* dispatches of its task are in flight, from earlier fires or from a
\* run-now request, and a run-now request whose lookup is out can go on to
\* its dispatch whatever dispatches the jobs have in flight.
C28_NoMutualExclusion ==
    phase = "serving" =>
        /\ \A i \in DOMAIN timers :
              fires[i].inflight < MaxInFlight => ENABLED CronFire(i)
        /\ \A r \in Slots :
              (req[r].op = "run" /\ req[r].pc = "lookup") => ENABLED RunGoesOn(r)

\* C28 witness: a run-now request and two fires of the job of the same task
\* have a dispatch in flight at once, for the same workflow and ref.
C28_Witness ==
    \E r \in Slots :
        /\ req[r].op = "run" /\ req[r].pc = "dispatch"
        /\ req[r].task.id \in DOMAIN timers
        /\ fires[req[r].task.id].inflight >= 2
        /\ req[r].call.ref = timers[req[r].task.id].ref
        /\ req[r].call.workflow = workflowPath(timers[req[r].task.id].workflow)

NoRunStatuses == {"NOT_FOUND", "DISABLED", "NEVER_RUN", "API_ERROR"}

\* C29: a getWorkflowStatus result with status NOT_FOUND, DISABLED,
\* NEVER_RUN or API_ERROR has run_id and last_run null; with any other
\* status the remote returned a run, and run_id and last_run are the id
\* and the creation time of the first run returned.
C29_RunFieldsIffFromRun ==
    (probe.op = "status" /\ ProbeAnswered /\ ProbeReturned) =>
        LET result == probe.resp.body
        IN  IF result.status \in NoRunStatuses
            THEN result.run_id = Null /\ result.last_run = Null
            ELSE /\ LatestRunExists
                 /\ result.run_id = LatestRun.id /\ result.run_id # Null
                 /\ result.last_run = LatestRun.created_at /\ result.last_run # Null

\* C29 witness: a SUCCESS result carries the id and creation time of the
\* run the remote returned.
C29_Witness ==
    /\ probe.op = "status" /\ ProbeAnswered /\ ProbeReturned
    /\ probe.resp.body.status = "SUCCESS"
    /\ probe.resp.body.run_id = "run2"
    /\ probe.resp.body.last_run = "t2"

\* the write of the update or toggle of connection r commits in this step
WriteCommits(r) ==
    req[r].op \in {"update", "toggle"} /\ req[r].pc = "set" /\ req'[r].pc = "done"

\* C30: the id a createTask returns is the one it stored its record under
\* and no task was stored under it at that moment; an update or toggle
\* writes under the id it was given, moves no other record and stores no
\* id inside the record; the ids in a list() result are pairwise distinct.
C30_IdsUniqueAndStable ==
    [][\A r \in Slots :
          /\ CreateCommits(r) =>
                /\ req[r].id \notin DOMAIN kv
                /\ req'[r].resp.id = req[r].id
                /\ req[r].id \in DOMAIN kv'
          /\ WriteCommits(r) =>
                /\ DOMAIN kv' = DOMAIN kv \cup {req[r].task.id}
                /\ \A i \in DOMAIN kv \ {req[r].task.id} : kv'[i] = kv[i]
                /\ ~Has(kv'[req[r].task.id], "id")
          /\ (req[r].op = "list" /\ req[r].pc = "list" /\ req'[r].pc = "done") =>
                \A t1, t2 \in req'[r].resp.tasks : t1.id = t2.id => t1 = t2]_vars

\* C30 witness: after task 1 was deleted a create stored its task under a
\* new id, next to the task that was left.
C30_Witness ==
    \E r \in Slots :
        /\ req[r].op = "create" /\ req[r].pc = "done"
        /\ req[r].resp.status = 200 /\ req[r].resp.id = 3
        /\ DOMAIN kv = {2, 3}

\* C31: the created_at a createTask stores is the time the store read at
\* that moment, whatever created_at the payload carries, and an update or a
\* toggle that writes a stored task leaves its created_at as it is.
C31_CreatedAtFromStore ==
    [][\A r \in Slots :
          /\ (req[r].op = "create" /\ req[r].pc = "checkName" /\ req'[r].pc = "set")
                => req'[r].value.created_at = clock
          /\ CreateCommits(r)
                => kv'[req[r].id].created_at = req[r].value.created_at
          /\ (WriteCommits(r) /\ req[r].id \in DOMAIN kv)
                => kv'[req[r].id].created_at = kv[req[r].id].created_at]_vars

\* C31 witness: an update whose payload carried its own created_at went
\* through and the task still has the created_at it was stored with.
C31_Witness ==
    \E r \in Slots :
        /\ req[r].op = "update" /\ req[r].pc = "done" /\ req[r].resp.status = 200
        /\ Has(req[r].task, "created_at")
        /\ req[r].task.id \in DOMAIN kv
        /\ kv[req[r].task.id].created_at = 0
        /\ kv[req[r].task.id].ref = <<"d">>

\* C32: a toggle request without an enabled value asks the store for the
\* opposite of the task's effective enabled state at the moment it reads
\* the task, a task stored without an enabled field counting as enabled.
C32_ToggleInverts ==
    [][\A r \in Slots :
          (/\ req[r].op = "toggle" /\ req[r].pc = "read" /\ req'[r].pc = "get"
           /\ ~Has(req[r].task, "enabled"))
              => req'[r].data.enabled = ~Enabled(kv[req[r].task.id])]_vars

\* the fields of a task a toggle has no business with
Untoggled(task) == [k \in DOMAIN task \ {"enabled", "updated_at"} |-> task[k]]

\* C33: when a toggle writes a stored task, every field of the record but
\* enabled and updated_at keeps the value stored at that moment, whatever
\* updateTask calls ran between the toggle's read and its write.
C33_ToggleFrame ==
    [][\A r \in Slots :
          (WriteCommits(r) /\ req[r].op = "toggle" /\ req[r].id \in DOMAIN kv)
              => Untoggled(kv'[req[r].id]) = Untoggled(kv[req[r].id])]_vars

\* C34: an update or a toggle writes its record only while the id is
\* stored: once a delete of the id has committed, no write that read the
\* record before the delete puts a record under that id again.
C34_NoResurrection ==
    [][\A r \in Slots :
          WriteCommits(r) => req[r].id \in DOMAIN kv]_vars

\* no request but that of connection r is in flight
Alone(r) == \A s \in Slots \ {r} : Unused(s)

\* C35: a name check that runs while no other request is in flight, on a
\* name that another stored task has, never lets its createTask or
\* updateTask go on to write, whether its storage scan succeeds or fails.
C35_UniqueDespiteScanFailure ==
    [][\A r \in Slots :
          (req[r].pc = "checkName" /\ req'[r] # req[r] /\ Alone(r)) =>
              /\ (req[r].op = "create" /\ Trim(req[r].task.name) \in StoredNames)
                    => req'[r].pc # "set"
              /\ (req[r].op = "update" /\ OtherHasName(req[r].task.id, req[r].task.name))
                    => req'[r].pc # "get"]_vars

\* C36: whenever the status probe has answered after a lookup that found
\* the workflow and reported its state, the probe returned DISABLED if and
\* only if the run-now route refuses to dispatch on that same lookup.
C36_RunAndProbeAgree ==
    (ProbeAnswered /\ LookupReported(WorkflowStates)) =>
        (RunRefuses(Request(probe.lookup).value)
            <=> (ProbeReturned /\ probe.resp.body.status = "DISABLED"))

\* C37: the step startApp takes from the starting state ends in the
\* serving state, never in the exit of the process, with a timer
\* registered for every task its list() returned, whatever tasks
\* createTask has put in the store.
C37_StartupAlwaysServes ==
    [][(phase = "starting" /\ phase' # "starting") =>
          /\ phase' = "serving"
          /\ DOMAIN timers' \in {{}, DOMAIN kv}]_vars

====
